---- MODULE Spec2Model ----
(***************************************************************************)
(* CSV-to-Elasticsearch loaders: index_elastic.py (static mapping, pandas  *)
(* normalisation), dadospop.py (dynamic mapping, csv.DictReader),          *)
(* index_estados.py (embedded state table) and indexador_streamlit.py      *)
(* (interactive upload).  One run of one entry point at a time; the sink   *)
(* (indices) and the working directory (files) persist between runs.       *)
(***************************************************************************)
EXTENDS Integers, Sequences, FiniteSets, TLC

\* Bounds of the model.
MaxRuns == 2
MaxRows == 1

(***************************************************************************)
(* Values held by DataFrame cells and document fields.  Strings are        *)
(* sequences of one-character strings so that parsing and formatting are   *)
(* computed, not assumed.                                                  *)
(***************************************************************************)
NaN == [t |-> "NaN"]
NaT == [t |-> "NaT"]
None == [t |-> "None"]
Str(chars) == [t |-> "str", chars |-> chars]
Float(hundredths) == [t |-> "float", v |-> hundredths]
Timestamp(y, m, d) == [t |-> "Timestamp", y |-> y, m |-> m, d |-> d]
GeoDict(lat, lon) == [t |-> "dict", lat |-> lat, lon |-> lon]

\* The language-native missing sentinels (float nan, pandas NaT).
Sentinels == {NaN, NaT}

\* pd.isna / pd.notna on a scalar.
isna(x) == x \in {NaN, NaT, None}
notna(x) == ~isna(x)

DigitChars == <<"0", "1", "2", "3", "4", "5", "6", "7", "8", "9">>
IsDigit(c) == \E i \in 1..10 : DigitChars[i] = c
DigitVal(c) == (CHOOSE i \in 1..10 : DigitChars[i] = c) - 1

RECURSIVE NumVal(_)
NumVal(s) == IF s = <<>> THEN 0
             ELSE 10 * NumVal(SubSeq(s, 1, Len(s) - 1)) + DigitVal(s[Len(s)])

IsLeap(y) == (y % 4 = 0 /\ y % 100 # 0) \/ y % 400 = 0
DaysInMonth(y, m) == IF m = 2 THEN (IF IsLeap(y) THEN 29 ELSE 28)
                     ELSE IF m \in {4, 6, 9, 11} THEN 30 ELSE 31

\* The directive %d: 3[0-1]|[1-2]\d|0[1-9]|[1-9] ; %m: 1[0-2]|0[1-9]|[1-9] ;
\* %Y: four digits.
MatchDay(s) == /\ Len(s) \in {1, 2}
               /\ \A i \in 1..Len(s) : IsDigit(s[i])
               /\ NumVal(s) \in 1..31
MatchMonth(s) == /\ Len(s) \in {1, 2}
                 /\ \A i \in 1..Len(s) : IsDigit(s[i])
                 /\ NumVal(s) \in 1..12
MatchYear(s) == Len(s) = 4 /\ \A i \in 1..4 : IsDigit(s[i])

\* The splits of the text the pattern tries, in its backtracking order
\* (two-character alternatives before one-character ones).
Splits == << <<2, 2>>, <<2, 1>>, <<1, 2>>, <<1, 1>> >>
SplitMatches(s, k) ==
    LET dl == Splits[k][1]
        ml == Splits[k][2]
    IN  /\ Len(s) = dl + ml + 4
        /\ MatchDay(SubSeq(s, 1, dl))
        /\ MatchMonth(SubSeq(s, dl + 1, dl + ml))
        /\ MatchYear(SubSeq(s, dl + ml + 1, Len(s)))

\* pd.to_datetime(cell, format="%d%m%Y", errors='coerce') on one cell:
\* the first split that matches decides; an impossible calendar date, a text
\* that does not match, or a missing cell gives NaT.
to_datetime(cell) ==
    IF cell.t # "str" THEN NaT
    ELSE LET s == cell.chars
             ks == {k \in 1..4 : SplitMatches(s, k)}
         IN  IF ks = {} THEN NaT
             ELSE LET k == CHOOSE k \in ks : \A j \in ks : k <= j
                      dl == Splits[k][1]
                      ml == Splits[k][2]
                      d == NumVal(SubSeq(s, 1, dl))
                      m == NumVal(SubSeq(s, dl + 1, dl + ml))
                      y == NumVal(SubSeq(s, dl + ml + 1, Len(s)))
                  IN  IF y >= 1 /\ d <= DaysInMonth(y, m)
                      THEN Timestamp(y, m, d) ELSE NaT

Pad2(n) == <<DigitChars[((n \div 10) % 10) + 1], DigitChars[(n % 10) + 1]>>
Pad4(n) == Pad2(n \div 100) \o Pad2(n % 100)

\* Timestamp.isoformat(): "YYYY-MM-DDT00:00:00"; NaT.isoformat(): "NaT".
isoformat(x) ==
    IF x = NaT THEN Str(<<"N", "a", "T">>)
    ELSE Str(Pad4(x.y) \o <<"-">> \o Pad2(x.m) \o <<"-">> \o Pad2(x.d)
             \o <<"T", "0", "0", ":", "0", "0", ":", "0", "0">>)

\* isinstance(obj, (datetime, pd.Timestamp)): pandas' NaT is an instance of
\* a datetime subclass, so it passes this test.
IsDatetimeInstance(obj) == obj.t \in {"Timestamp", "NaT"}

convert_to_serializable(obj) ==
    IF IsDatetimeInstance(obj) THEN isoformat(obj)
    ELSE IF isna(obj) THEN None
    ELSE obj

(***************************************************************************)
(* index_elastic.process_csv.  A DataFrame is [columns, rows]: rows is a   *)
(* sequence of functions from the column names to cell values.             *)
(***************************************************************************)
date_columns == {"DTOBITO", "DTNASC", "DTATESTADO", "DTCADASTRO", "DTRECEBIM"}

\* df[name] = values (assignment of a new or existing column, one value per
\* row).
SetColumn(df, name, values) ==
    [columns |-> df.columns \cup {name},
     rows |-> [i \in DOMAIN df.rows |->
                 [c \in df.columns \cup {name} |->
                     IF c = name THEN values[i] ELSE df.rows[i][c]]]]

\* for col in date_columns: df[col] = pd.to_datetime(df[col], ...)
ParseDates(df) ==
    [df EXCEPT !.rows = [i \in DOMAIN df.rows |->
        [c \in df.columns |-> IF c \in date_columns
                              THEN to_datetime(df.rows[i][c])
                              ELSE df.rows[i][c]]]]

ResCoordenadas(row) ==
    IF notna(row["res_LATITUDE"]) /\ notna(row["res_LONGITUDE"])
    THEN GeoDict(row["res_LATITUDE"], row["res_LONGITUDE"])
    ELSE None

\* Only the res_ pair is composed.
AddCoordenadas(df) ==
    IF "res_LATITUDE" \in df.columns /\ "res_LONGITUDE" \in df.columns
    THEN SetColumn(df, "res_coordenadas",
                   [i \in DOMAIN df.rows |-> ResCoordenadas(df.rows[i])])
    ELSE df

DataObito(row) == IF notna(row["DTOBITO"]) THEN isoformat(row["DTOBITO"]) ELSE None

AddDataObito(df) ==
    IF "DTOBITO" \in df.columns
    THEN SetColumn(df, "data_obito",
                   [i \in DOMAIN df.rows |-> DataObito(df.rows[i])])
    ELSE SetColumn(df, "data_obito", [i \in DOMAIN df.rows |-> None])

\* for col in df.columns: df[col] = df[col].apply(convert_to_serializable)
ApplySerializable(df) ==
    [df EXCEPT !.rows = [i \in DOMAIN df.rows |->
        [c \in df.columns |-> convert_to_serializable(df.rows[i][c])]]]

\* df.replace({np.nan: None, pd.NaT: None}, inplace=True)
ReplaceMissing(df) ==
    [df EXCEPT !.rows = [i \in DOMAIN df.rows |->
        [c \in df.columns |-> IF df.rows[i][c] \in Sentinels
                              THEN None ELSE df.rows[i][c]]]]

\* df.to_dict(orient='records')
to_dict(df) == df.rows

\* process_csv on the DataFrame read_csv produced.  A missing date column is
\* a KeyError inside the try block: logged, then exit(1).
process_csv(df) ==
    IF ~(date_columns \subseteq df.columns)
    THEN [exit |-> TRUE, data |-> <<>>]
    ELSE [exit |-> FALSE,
          data |-> to_dict(ReplaceMissing(ApplySerializable(
                       AddDataObito(AddCoordenadas(ParseDates(df))))))]

(***************************************************************************)
(* Input files of the model.                                               *)
(***************************************************************************)
SeqsUpTo(S, n) == UNION {[1..k -> S] : k \in 0..n}

D01012020 == Str(<<"0", "1", "0", "1", "2", "0", "2", "0">>)
D99999999 == Str(<<"9", "9", "9", "9", "9", "9", "9", "9">>)
TextM == Str(<<"M">>)
TextAbc == Str(<<"a", "b", "c">>)

\* dados_obitos.csv as read_csv returns it: the row profiles give the cells
\* of DTOBITO, of the other date columns, and of the latitude and longitude
\* columns.
ObitosColumns == date_columns \cup
    {"res_LATITUDE", "res_LONGITUDE", "ocor_LATITUDE", "ocor_LONGITUDE", "SEXO"}
ObitosColumnSets == {ObitosColumns,
                     ObitosColumns \ {"DTNASC"},
                     ObitosColumns \cup {"OBSERVACAO"}}
RowProfiles ==
    {[date |-> D01012020, other |-> D01012020, lat |-> Float(-2355), lon |-> Float(-4663)],
     [date |-> D99999999, other |-> D01012020, lat |-> NaN, lon |-> Float(-4663)],
     [date |-> NaN, other |-> NaN, lat |-> TextAbc, lon |-> Float(-4663)]}
ObitosRow(cols, p) ==
    [c \in cols |->
        IF c = "DTOBITO" THEN p.date
        ELSE IF c \in date_columns THEN p.other
        ELSE IF c \in {"res_LATITUDE", "ocor_LATITUDE"} THEN p.lat
        ELSE IF c \in {"res_LONGITUDE", "ocor_LONGITUDE"} THEN p.lon
        ELSE IF c = "SEXO" THEN TextM
        ELSE NaN]
ObitosFiles ==
    {[columns |-> cols, rows |-> [i \in DOMAIN ps |-> ObitosRow(cols, ps[i])]] :
        cols \in ObitosColumnSets, ps \in SeqsUpTo(RowProfiles, MaxRows)}

(***************************************************************************)
(* The index sink (Elasticsearch), as the loaders use it.  An index is     *)
(* [name, mappings, docs]; docs counts the documents it holds.  The sink   *)
(* answers exists/delete/create reliably; create on an existing name and   *)
(* delete on a missing one raise; the liveness probe and the bulk call may *)
(* fail to answer.                                                         *)
(***************************************************************************)
SinkExists(idx, name) == \E i \in idx : i.name = name
SinkDelete(idx, name) == {i \in idx : i.name # name}
SinkCreate(idx, name, mappings) ==
    idx \cup {[name |-> name, mappings |-> mappings, docs |-> 0]}
SinkAddDocs(idx, name, n) ==
    IF SinkExists(idx, name)
    THEN {IF i.name = name THEN [i EXCEPT !.docs = @ + n] ELSE i : i \in idx}
    ELSE idx \cup {[name |-> name, mappings |-> << >>, docs |-> n]}

Call(op, name, ret) == [op |-> op, index |-> name, ret |-> ret]

\* A client session: the sink's indices, the calls issued so far, and
\* whether a call has raised (the calls after it are not issued).
Session(idx) == [indices |-> idx, calls |-> << >>, raised |-> FALSE]

\* es.indices.exists(index=name)
es_indices_exists(cs, name) ==
    [cs EXCEPT !.calls = Append(@, Call("exists", name,
                            IF SinkExists(cs.indices, name) THEN "true" ELSE "false"))]

\* es.indices.delete(index=name)
es_indices_delete(cs, name) ==
    IF cs.raised THEN cs
    ELSE IF SinkExists(cs.indices, name)
    THEN [cs EXCEPT !.indices = SinkDelete(@, name),
                    !.calls = Append(@, Call("delete", name, "ok"))]
    ELSE [cs EXCEPT !.raised = TRUE,
                    !.calls = Append(@, Call("delete", name, "not_found"))]

\* es.indices.create(index=name, body=mappings)
es_indices_create(cs, name, mappings) ==
    IF cs.raised THEN cs
    ELSE IF SinkExists(cs.indices, name)
    THEN [cs EXCEPT !.raised = TRUE,
                    !.calls = Append(@, Call("create", name, "already_exists"))]
    ELSE [cs EXCEPT !.indices = SinkCreate(@, name, mappings),
                    !.calls = Append(@, Call("create", name, "ok"))]

\* The positions of a set, in increasing order.
RECURSIVE SortedSeq(_)
SortedSeq(S) == IF S = {} THEN << >>
                ELSE LET m == CHOOSE x \in S : \A y \in S : x <= y
                     IN  <<m>> \o SortedSeq(S \ {m})

\* One failure descriptor per rejected document: the document and the
\* engine's reason.
Failure(name, doc) ==
    [index |-> name, data |-> doc, reason |-> "mapper_parsing_exception"]

\* helpers.bulk(es, actions, raise_on_error=...).  oc.timeout: the call
\* raises a connection error; oc.rejected: the positions the sink rejects.  With raise_on_error a rejection raises BulkIndexError.
helpers_bulk(name, docs, oc, raise_on_error) ==
    LET rej == SortedSeq(oc.rejected)
        errors == [k \in DOMAIN rej |-> Failure(name, docs[rej[k]])]
    IN  IF oc.timeout \/ (raise_on_error /\ errors # << >>)
        THEN [raised |-> TRUE, success |-> 0, errors |-> << >>]
        ELSE [raised |-> FALSE, success |-> Len(docs) - Len(errors),
              errors |-> errors]

\* A bulk call answers with any subset of the batch rejected, or (when there
\* is a request to make) times out with any part of the batch indexed.
BulkOutcomes(docs) ==
    {[timeout |-> FALSE, rejected |-> r, partial |-> 0] : r \in SUBSET (1..Len(docs))}
    \cup {[timeout |-> TRUE, rejected |-> {}, partial |-> k] : k \in 0..(Len(docs) - 1)}

(***************************************************************************)
(* Field mappings.                                                         *)
(***************************************************************************)
MappedInteger == {
    "ORIGEM", "TIPOBITO", "IDADE", "idade_obito_meses", "idade_obito_dias",
    "idade_obito_horas", "idade_obito_mins", "SEXO", "RACACOR", "ESTCIV", "ESC", "ESC2010",
    "LOCOCOR", "IDADEMAE", "ESCMAE", "ESCMAE2010", "QTDFILVIVO", "QTDFILMORT", "GRAVIDEZ",
    "PARTO", "OBITOPARTO", "TPMORTEOCO", "OBITOGRAV", "OBITOPUERP", "ASSISTMED", "EXAME",
    "CIRURGIA", "NECROPSIA", "CIRCOBITO", "ESCMAEAGR1", "ESCFALAGR1", "DIFDATA",
    "NUDIASOBCO", "NUDIASOBIN", "TPOBITOCOR", "CONTADOR", "res_ALTITUDE", "ocor_ALTITUDE",
    "ocor_CODIGO_UF", "res_CODIGO_UF", "ano_obito", "ano_nasc"}
MappedKeyword == {
    "HORAOBITO", "NATURAL", "CODMUNNATU", "SERIESCFAL", "OCUP", "CODMUNRES", "CODESTAB",
    "ESTABDESCR", "CODMUNOCOR", "SERIESCMAE", "OCUPMAE", "GESTACAO", "LINHAA", "LINHAB",
    "LINHAC", "LINHAD", "LINHAII", "CAUSABAS", "CB_PRE", "COMUNSVOIM", "ACIDTRAB", "FONTE",
    "NUMEROLOTE", "TPPOS", "DTINVESTIG", "CAUSABAS_O", "ATESTANTE", "STCODIFICA",
    "CODIFICADO", "VERSAOSIST", "VERSAOSCB", "FONTEINV", "ATESTADO", "DTRECORIGA",
    "CAUSAMAT", "STDOEPIDEM", "STDONOVA", "DTCADINV", "DTCONINV", "FONTES", "TPRESGINFO",
    "TPNIVELINV", "NUDIASINF", "DTCADINF", "MORTEPARTO", "DTCONCASO", "FONTESINF",
    "ALTCAUSA", "def_tipo_obito", "def_sexo", "def_raca_cor", "def_est_civil", "def_escol",
    "def_loc_ocor", "def_escol_mae", "def_gravidez", "def_gestacao", "def_parto",
    "def_obito_parto", "def_obito_grav", "def_obito_puerp", "def_assist_med", "def_exame",
    "def_cirurgia", "def_necropsia", "def_circ_obito", "def_acid_trab", "def_fonte",
    "res_MUNNOME", "res_MUNNOMEX", "res_AMAZONIA", "res_FRONTEIRA", "res_CAPITAL",
    "res_MSAUDCOD", "res_RSAUDCOD", "res_CSAUDCOD", "res_ANOEXT", "res_SUCESSOR",
    "res_codigo_adotado", "ocor_MUNNOME", "ocor_MUNNOMEX", "ocor_AMAZONIA",
    "ocor_FRONTEIRA", "ocor_CAPITAL", "ocor_MSAUDCOD", "ocor_RSAUDCOD", "ocor_CSAUDCOD",
    "ocor_ANOEXT", "ocor_SUCESSOR", "ocor_codigo_adotado", "ocor_SIGLA_UF", "ocor_NOME_UF",
    "res_SIGLA_UF", "res_NOME_UF", "ocor_REGIAO", "res_REGIAO", "causabas_capitulo",
    "causabas_grupo", "causabas_categoria", "causabas_subcategoria", "dia_semana_obito",
    "dia_semana_nasc"}
MappedFloat == {
    "idade_obito_anos", "SEMAGESTAC", "PESO", "res_LATITUDE", "res_LONGITUDE", "res_AREA",
    "ocor_LATITUDE", "ocor_LONGITUDE", "ocor_AREA", "idade_obito", "idade_obito_calculado"}
MappedDate == {
    "DTOBITO", "DTNASC", "DTATESTADO", "DTCADASTRO", "DTRECEBIM", "data_obito",
    "data_nasc"}
MappedGeoPoint == {
    "ocor_coordenadas", "res_coordenadas"}

\* index_elastic.create_index: the curated table.
StaticMappings ==
    [f \in MappedInteger \cup MappedKeyword \cup MappedFloat \cup MappedDate
           \cup MappedGeoPoint |->
        IF f \in MappedInteger THEN "integer"
        ELSE IF f \in MappedKeyword THEN "keyword"
        ELSE IF f \in MappedFloat THEN "float"
        ELSE IF f \in MappedDate THEN "date"
        ELSE "geo_point"]

\* dadospop.create_index, indexador_streamlit.create_index: every key of
\* the sample record as text with a keyword sub-field.
DynamicMappings(sample_record) == [k \in DOMAIN sample_record |-> "text"]

\* index_estados.create_estados_index
EstadosMappings == [cod |-> "keyword", nome |-> "text", sigla |-> "keyword"]

(***************************************************************************)
(* create-index, one per script.                                           *)
(***************************************************************************)
\* Variant of create_index that never deletes the existing index.
create_index_no_delete(idx, index_name) ==
    es_indices_create(es_indices_exists(Session(idx), index_name),
                      index_name, StaticMappings)

\* index_elastic.create_index
create_index(idx, index_name) ==
    LET c1 == es_indices_exists(Session(idx), index_name)
        c2 == IF SinkExists(idx, index_name)
              THEN es_indices_delete(c1, index_name) ELSE c1
    IN  es_indices_create(c2, index_name, StaticMappings)

\* dadospop.create_index
dp_create_index(idx, index_name, sample_record) ==
    LET c1 == es_indices_exists(Session(idx), index_name)
        c2 == IF SinkExists(idx, index_name)
              THEN es_indices_delete(c1, index_name) ELSE c1
    IN  es_indices_create(c2, index_name, DynamicMappings(sample_record))

\* index_estados.create_estados_index
create_estados_index(idx, index_name) ==
    LET c1 == es_indices_exists(Session(idx), index_name)
        c2 == IF SinkExists(idx, index_name)
              THEN es_indices_delete(c1, index_name) ELSE c1
    IN  es_indices_create(c2, index_name, EstadosMappings)

\* Variant of st_create_index that deletes without the existence check.
st_create_index_no_exists_check(idx, index_name, sample_record) ==
    es_indices_create(es_indices_delete(Session(idx), index_name),
                      index_name, DynamicMappings(sample_record))

\* indexador_streamlit.create_index
st_create_index(idx, index_name, sample_record) ==
    LET c1 == es_indices_exists(Session(idx), index_name)
        c2 == IF SinkExists(idx, index_name)
              THEN es_indices_delete(c1, index_name) ELSE c1
    IN  es_indices_create(c2, index_name, DynamicMappings(sample_record))

(***************************************************************************)
(* connect_elastic, one per script.  ping is what es.ping() does: "true",  *)
(* "false", or "raise" (the client raises a connection error).             *)
(***************************************************************************)
PingResults == {"true", "false", "raise"}

\* Variant of connect_elastic without the test of ping's answer.
connect_elastic_ignores_ping(ping) ==
    IF ping = "raise" THEN "exit(1)" ELSE "es"

\* index_elastic.connect_elastic: a false ping raises ValueError inside the
\* try block; every Exception is logged and answered with exit(1).
connect_elastic(ping) ==
    LET raisedInTry == ping = "raise" \/ ping = "false"
    IN  IF raisedInTry THEN "exit(1)" ELSE "es"

\* dadospop.connect_elastic
dp_connect_elastic(ping) ==
    LET raisedInTry == ping = "raise" \/ ping = "false"
    IN  IF raisedInTry THEN "exit(1)" ELSE "es"

\* index_estados.connect_elastic
es_connect_elastic(ping) ==
    LET raisedInTry == ping = "raise" \/ ping = "false"
    IN  IF raisedInTry THEN "exit(1)" ELSE "es"

\* indexador_streamlit.connect_elastic: no try block; a false ping shows an
\* error and stops the script run.
st_connect_elastic(ping) ==
    IF ping = "raise" THEN "uncaught"
    ELSE IF ping = "false" THEN "st.stop"
    ELSE "es"

(***************************************************************************)
(* The loaders.  fs is the working directory (file name -> content); the   *)
(* result carries the files afterwards, what the loader reported, the bulk *)
(* response, and whether an exception leaves the loader.                   *)
(***************************************************************************)
NoFiles == [f \in {} |-> << >>]
WriteFile(fs, name, content) == (name :> content) @@ fs

Report(kind, n) == [kind |-> kind, n |-> n]
NoReport == Report("none", 0)
NoResponse == [raised |-> FALSE, success |-> 0, errors |-> << >>]

\* Variant of index_data that leaves raise_on_error at its default.
index_data_raise_on_error(fs, index_name, data, oc) ==
    LET response == helpers_bulk(index_name, data, oc, TRUE)
        failed == response.errors
    IN  IF response.raised
        THEN [files |-> fs, report |-> Report("exception", 0),
              response |-> response, raised |-> FALSE]
        ELSE IF failed # << >>
        THEN [files |-> WriteFile(fs, "failed_docs.json", failed),
              report |-> Report("failed", Len(failed)),
              response |-> response, raised |-> FALSE]
        ELSE [files |-> fs, report |-> Report("success", Len(data)),
              response |-> response, raised |-> FALSE]

\* index_elastic.index_data
index_data(fs, index_name, data, oc) ==
    LET response == helpers_bulk(index_name, data, oc, FALSE)
        failed == response.errors
    IN  IF response.raised
        THEN [files |-> fs, report |-> Report("exception", 0),
              response |-> response, raised |-> FALSE]
        ELSE IF failed # << >>
        THEN [files |-> WriteFile(fs, "failed_docs.json", failed),
              report |-> Report("failed", Len(failed)),
              response |-> response, raised |-> FALSE]
        ELSE [files |-> fs, report |-> Report("success", Len(data)),
              response |-> response, raised |-> FALSE]

\* Variant of index_csv_data that reports success without looking at the
\* failure list.
index_csv_data_always_success(fs, index_name, data, oc) ==
    LET response == helpers_bulk(index_name, data, oc, FALSE)
        failed == response.errors
    IN  IF response.raised
        THEN [files |-> fs, report |-> Report("exception", 0),
              response |-> response, raised |-> FALSE]
        ELSE [files |-> IF failed # << >>
                        THEN WriteFile(fs, "failed_docs_" \o index_name \o ".json", failed)
                        ELSE fs,
              report |-> Report("success", Len(data)),
              response |-> response, raised |-> FALSE]

\* dadospop.index_csv_data
index_csv_data(fs, index_name, data, oc) ==
    LET response == helpers_bulk(index_name, data, oc, FALSE)
        failed == response.errors
    IN  IF response.raised
        THEN [files |-> fs, report |-> Report("exception", 0),
              response |-> response, raised |-> FALSE]
        ELSE IF failed # << >>
        THEN [files |-> WriteFile(fs, "failed_docs_" \o index_name \o ".json", failed),
              report |-> Report("failed", Len(failed)),
              response |-> response, raised |-> FALSE]
        ELSE [files |-> fs, report |-> Report("success", Len(data)),
              response |-> response, raised |-> FALSE]

\* Variant of index_estados_data that writes the artifact whatever the
\* failure list holds.
index_estados_data_always_writes(fs, index_name, data, oc) ==
    LET response == helpers_bulk(index_name, data, oc, FALSE)
        failed == response.errors
    IN  IF response.raised
        THEN [files |-> fs, report |-> Report("exception", 0),
              response |-> response, raised |-> FALSE]
        ELSE [files |-> WriteFile(fs, "failed_docs_" \o index_name \o ".json", failed),
              report |-> IF failed # << >> THEN Report("failed", Len(failed))
                         ELSE Report("success", Len(data)),
              response |-> response, raised |-> FALSE]

\* index_estados.index_estados_data
index_estados_data(fs, index_name, data, oc) ==
    LET response == helpers_bulk(index_name, data, oc, FALSE)
        failed == response.errors
    IN  IF response.raised
        THEN [files |-> fs, report |-> Report("exception", 0),
              response |-> response, raised |-> FALSE]
        ELSE IF failed # << >>
        THEN [files |-> WriteFile(fs, "failed_docs_" \o index_name \o ".json", failed),
              report |-> Report("failed", Len(failed)),
              response |-> response, raised |-> FALSE]
        ELSE [files |-> fs, report |-> Report("success", Len(data)),
              response |-> response, raised |-> FALSE]

\* indexador_streamlit.index_data: no try block; the failures are offered
\* as a download, no file is written.
st_index_data(fs, index_name, records, oc) ==
    LET response == helpers_bulk(index_name, records, oc, FALSE)
        failed == response.errors
    IN  IF response.raised
        THEN [files |-> fs, report |-> NoReport,
              response |-> response, raised |-> TRUE]
        ELSE IF failed # << >>
        THEN [files |-> fs, report |-> Report("failed", Len(failed)),
              response |-> response, raised |-> FALSE]
        ELSE [files |-> fs, report |-> Report("success", Len(records)),
              response |-> response, raised |-> FALSE]

(***************************************************************************)
(* dadospop.parse_csv_file: csv.DictReader over [header, lines].  A short  *)
(* line leaves the missing keys None; the extra cells of a long line are   *)
(* collected in a list under the key None.                                 *)
(***************************************************************************)
RestKey == "None"
List(items) == [t |-> "list", items |-> items]

DictRow(header, line) ==
    LET keys == {header[i] : i \in DOMAIN header}
                  \cup (IF Len(line) > Len(header) THEN {RestKey} ELSE {})
    IN  [k \in keys |->
            IF k = RestKey /\ Len(line) > Len(header)
            THEN List(SubSeq(line, Len(header) + 1, Len(line)))
            ELSE LET i == CHOOSE i \in DOMAIN header : header[i] = k
                 IN  IF i <= Len(line) THEN Str(line[i]) ELSE None]

parse_csv_file(file) == [i \in DOMAIN file.lines |-> DictRow(file.header, file.lines[i])]

PopHeader == <<"ANO", "POP">>
PopLines == {<< <<"2", "0", "2", "0">>, <<"1", "0", "0">> >>,
             << <<"2", "0", "2", "2">>, <<"5">>, <<"x">> >>,
             << <<"2", "0", "2", "3">> >>}
PopFiles == {[header |-> PopHeader, lines |-> ls] : ls \in SeqsUpTo(PopLines, MaxRows)}

(***************************************************************************)
(* index_estados: the embedded table and parse_estados_data.               *)
(***************************************************************************)
\* The first rows of the table, as the fields between the commas (accents
\* written without their diacritics); MaxEstados of them are loaded.
MaxEstados == 2

estados_header == <<"COD", "NOME", "SIGLA">>
estados_lines ==
    << << <<"3", "5">>, <<"S", "a", "o", " ", "P", "a", "u", "l", "o">>, <<" ", "S", "P">> >>,
       << <<"4", "1">>, <<"P", "a", "r", "a", "n", "a">>, <<" ", "P", "R">> >>,
       << <<"4", "2">>, <<"S", "a", "n", "t", "a", " ", "C", "a", "t", "a", "r", "i", "n", "a">>,
          <<" ", "S", "C">> >>,
       << <<"4", "3">>, <<"R", "i", "o", " ", "G", "r", "a", "n", "d", "e", " ", "d", "o", " ",
            "S", "u", "l">>, <<" ", "R", "S">> >> >>
estados_data == [header |-> estados_header,
                 lines |-> SubSeq(estados_lines, 1, MaxEstados)]

RECURSIVE lstrip(_)
lstrip(s) == IF s # << >> /\ s[1] = " " THEN lstrip(Tail(s)) ELSE s
RECURSIVE rstrip(_)
rstrip(s) == IF s # << >> /\ s[Len(s)] = " " THEN rstrip(SubSeq(s, 1, Len(s) - 1)) ELSE s
strip(s) == rstrip(lstrip(s))

lower(h) == CASE h = "COD" -> "cod"
              [] h = "NOME" -> "nome"
              [] h = "SIGLA" -> "sigla"
              [] OTHER -> h

parse_estados_data(table) ==
    LET headers == [i \in DOMAIN table.header |-> lower(table.header[i])]
    IN  [n \in DOMAIN table.lines |->
            [k \in {headers[i] : i \in DOMAIN headers} |->
                LET i == CHOOSE i \in DOMAIN headers : headers[i] = k
                IN  Str(strip(table.lines[n][i]))]]

(***************************************************************************)
(* indexador_streamlit: the uploaded file as pd.read_csv returns it, and   *)
(* the index name typed by the user.                                       *)
(***************************************************************************)
UploadColumns == {"NOME", "VALOR"}
UploadRows == {[NOME |-> TextAbc, VALOR |-> Float(100)],
               [NOME |-> NaN, VALOR |-> Float(100)]}
UploadFiles == {[columns |-> UploadColumns, rows |-> rs] : rs \in SeqsUpTo(UploadRows, MaxRows)}
UploadIndexNames == {"meu_indice", "obitos"}

(***************************************************************************)
(* State.                                                                  *)
(***************************************************************************)
VARIABLES
    indices,     \* the sink's indices
    files,       \* the working directory: file name -> content written
    es_cached,   \* st.cache_resource holds a connected client
    runs,        \* runs started so far
    script,      \* the entry point of the current run
    pc,          \* the statement of main the run is at
    halt,        \* how the run ended
    index_name,  \* main's index_name
    csv,         \* the input the run read
    data,        \* the records main holds
    calls,       \* the sink calls the run has issued, in order
    response,    \* the response of the run's bulk call
    outcome,     \* what the sink did with the run's bulk call
    report       \* what the loader reported

vars == <<indices, files, es_cached, runs, script, pc, halt, index_name, csv,
          data, calls, response, outcome, report>>

Scripts == {"index_elastic", "dadospop", "index_estados", "indexador_streamlit"}
NoInput == [columns |-> {}, rows |-> << >>]
NoOutcome == [timeout |-> FALSE, rejected |-> {}, partial |-> 0]

Init ==
    /\ indices = {}
    /\ files = NoFiles
    /\ es_cached = FALSE
    /\ runs = 0
    /\ script = "none"
    /\ pc = "idle"
    /\ halt = "none"
    /\ index_name = ""
    /\ csv = NoInput
    /\ data = << >>
    /\ calls = << >>
    /\ response = NoResponse
    /\ outcome = NoOutcome
    /\ report = NoReport

\* The hard-coded index name of each script's main.
MainIndexName(s) == CASE s = "index_elastic" -> "obitos"
                      [] s = "dadospop" -> "dados_csv"
                      [] s = "index_estados" -> "estados"

FirstStep(s) == IF s = "indexador_streamlit" THEN "read_csv" ELSE "connect"

\* A script is launched (for the Streamlit page: a file is uploaded, an
\* index name typed and the button pressed).
Start ==
    /\ pc \in {"idle", "done"}
    /\ runs < MaxRuns
    /\ \E s \in Scripts :
        /\ script' = s
        /\ pc' = FirstStep(s)
        /\ IF s = "indexador_streamlit"
           THEN index_name' \in UploadIndexNames
           ELSE index_name' = MainIndexName(s)
    /\ runs' = runs + 1
    /\ halt' = "none"
    /\ csv' = NoInput
    /\ data' = << >>
    /\ calls' = << >>
    /\ response' = NoResponse
    /\ outcome' = NoOutcome
    /\ report' = NoReport
    /\ UNCHANGED <<indices, files, es_cached>>

\* The run ends: pc = "done" and halt says how.
Ends(how) == pc' = "done" /\ halt' = how

\* The exit status of a finished script run.
ExitStatus == IF halt \in {"exit(1)", "uncaught"} THEN 1 ELSE 0

\* The bulk call of a loader: the sink keeps what it accepted (any part of
\* the batch when the call timed out).
BulkStep(result, oc) ==
    /\ outcome' = oc
    /\ files' = result.files
    /\ report' = result.report
    /\ response' = result.response
    /\ calls' = Append(calls, Call("bulk", index_name,
                         IF result.response.raised THEN "raise" ELSE "ok"))
    /\ indices' = SinkAddDocs(indices, index_name,
                     IF oc.timeout THEN oc.partial
                     ELSE Len(data) - Cardinality(oc.rejected))
    /\ Ends(IF result.raised THEN "uncaught" ELSE "return")

CreateStep(cs, next) ==
    /\ indices' = cs.indices
    /\ calls' = calls \o cs.calls
    /\ IF cs.raised THEN Ends("uncaught") ELSE pc' = next /\ halt' = halt

(***************************************************************************)
(* index_elastic.main                                                      *)
(***************************************************************************)
IE_connect ==
    /\ script = "index_elastic" /\ pc = "connect"
    /\ \E ping \in PingResults :
        /\ calls' = Append(calls, Call("ping", "", ping))
        /\ IF connect_elastic(ping) = "es"
           THEN pc' = "create_index" /\ halt' = halt
           ELSE Ends("exit(1)")
    /\ UNCHANGED <<indices, files, es_cached, runs, script, index_name, csv,
                   data, response, outcome, report>>

IE_create_index ==
    /\ script = "index_elastic" /\ pc = "create_index"
    /\ CreateStep(create_index(indices, index_name), "process_csv")
    /\ UNCHANGED <<files, es_cached, runs, script, index_name, csv, data,
                   response, outcome, report>>

IE_process_csv ==
    /\ script = "index_elastic" /\ pc = "process_csv"
    /\ \E df \in ObitosFiles :
        /\ csv' = df
        /\ LET r == process_csv(df)
           IN  IF r.exit
               THEN Ends("exit(1)") /\ data' = data
               ELSE pc' = "index_data" /\ halt' = halt /\ data' = r.data
    /\ UNCHANGED <<indices, files, es_cached, runs, script, index_name, calls,
                   response, outcome, report>>

IE_index_data ==
    /\ script = "index_elastic" /\ pc = "index_data"
    /\ \E oc \in BulkOutcomes(data) :
        BulkStep(index_data(files, index_name, data, oc), oc)
    /\ UNCHANGED <<es_cached, runs, script, index_name, csv, data>>

(***************************************************************************)
(* dadospop.main                                                           *)
(***************************************************************************)
DP_connect ==
    /\ script = "dadospop" /\ pc = "connect"
    /\ \E ping \in PingResults :
        /\ calls' = Append(calls, Call("ping", "", ping))
        /\ IF dp_connect_elastic(ping) = "es"
           THEN pc' = "parse_csv_file" /\ halt' = halt
           ELSE Ends("exit(1)")
    /\ UNCHANGED <<indices, files, es_cached, runs, script, index_name, csv,
                   data, response, outcome, report>>

\* records = parse_csv_file(CSV_FILE_PATH); with no record main only warns.
DP_parse_csv_file ==
    /\ script = "dadospop" /\ pc = "parse_csv_file"
    /\ \E file \in PopFiles :
        /\ csv' = file
        /\ data' = parse_csv_file(file)
        /\ IF parse_csv_file(file) # << >>
           THEN pc' = "create_index" /\ halt' = halt
           ELSE Ends("return")
    /\ UNCHANGED <<indices, files, es_cached, runs, script, index_name, calls,
                   response, outcome, report>>

DP_create_index ==
    /\ script = "dadospop" /\ pc = "create_index"
    /\ CreateStep(dp_create_index(indices, index_name, data[1]), "index_csv_data")
    /\ UNCHANGED <<files, es_cached, runs, script, index_name, csv, data,
                   response, outcome, report>>

DP_index_csv_data ==
    /\ script = "dadospop" /\ pc = "index_csv_data"
    /\ \E oc \in BulkOutcomes(data) :
        BulkStep(index_csv_data(files, index_name, data, oc), oc)
    /\ UNCHANGED <<es_cached, runs, script, index_name, csv, data>>

(***************************************************************************)
(* index_estados.main                                                      *)
(***************************************************************************)
ES_connect ==
    /\ script = "index_estados" /\ pc = "connect"
    /\ \E ping \in PingResults :
        /\ calls' = Append(calls, Call("ping", "", ping))
        /\ IF es_connect_elastic(ping) = "es"
           THEN pc' = "create_estados_index" /\ halt' = halt
           ELSE Ends("exit(1)")
    /\ UNCHANGED <<indices, files, es_cached, runs, script, index_name, csv,
                   data, response, outcome, report>>

ES_create_estados_index ==
    /\ script = "index_estados" /\ pc = "create_estados_index"
    /\ CreateStep(create_estados_index(indices, index_name), "parse_estados_data")
    /\ UNCHANGED <<files, es_cached, runs, script, index_name, csv, data,
                   response, outcome, report>>

ES_parse_estados_data ==
    /\ script = "index_estados" /\ pc = "parse_estados_data"
    /\ csv' = estados_data
    /\ data' = parse_estados_data(estados_data)
    /\ pc' = "index_estados_data"
    /\ UNCHANGED <<indices, files, es_cached, runs, script, halt, index_name,
                   calls, response, outcome, report>>

ES_index_estados_data ==
    /\ script = "index_estados" /\ pc = "index_estados_data"
    /\ \E oc \in BulkOutcomes(data) :
        BulkStep(index_estados_data(files, index_name, data, oc), oc)
    /\ UNCHANGED <<es_cached, runs, script, index_name, csv, data>>

(***************************************************************************)
(* indexador_streamlit.main, for a run with the button pressed.            *)
(***************************************************************************)
\* df = pd.read_csv(uploaded_file); an unreadable file is reported and
\* main returns.
ST_read_csv ==
    /\ script = "indexador_streamlit" /\ pc = "read_csv"
    /\ \/ \E df \in UploadFiles : csv' = df /\ pc' = "connect" /\ halt' = halt
       \/ csv' = csv /\ Ends("return")
    /\ UNCHANGED <<indices, files, es_cached, runs, script, index_name, data,
                   calls, response, outcome, report>>

\* es = connect_elastic(): the cached client is returned without a probe.
ST_connect ==
    /\ script = "indexador_streamlit" /\ pc = "connect"
    /\ IF es_cached
       THEN pc' = "create_index" /\ UNCHANGED <<calls, es_cached, halt>>
       ELSE \E ping \in PingResults :
              /\ calls' = Append(calls, Call("ping", "", ping))
              /\ IF st_connect_elastic(ping) = "es"
                 THEN pc' = "create_index" /\ es_cached' = TRUE /\ halt' = halt
                 ELSE Ends(st_connect_elastic(ping)) /\ es_cached' = es_cached
    /\ UNCHANGED <<indices, files, runs, script, index_name, csv, data,
                   response, outcome, report>>

\* records = df.to_dict(orient="records"); create_index(es, index_name,
\* records[0]) when there is a record, a warning otherwise.
ST_create_index ==
    /\ script = "indexador_streamlit" /\ pc = "create_index"
    /\ data' = to_dict(csv)
    /\ IF to_dict(csv) # << >>
       THEN CreateStep(st_create_index(indices, index_name, to_dict(csv)[1]),
                       "index_data")
       ELSE Ends("return") /\ UNCHANGED <<indices, calls>>
    /\ UNCHANGED <<files, es_cached, runs, script, index_name, csv, response, outcome,
                   report>>

ST_index_data ==
    /\ script = "indexador_streamlit" /\ pc = "index_data"
    /\ \E oc \in BulkOutcomes(data) :
        BulkStep(st_index_data(files, index_name, data, oc), oc)
    /\ UNCHANGED <<es_cached, runs, script, index_name, csv, data>>

Next ==
    \/ Start
    \/ IE_connect \/ IE_create_index \/ IE_process_csv \/ IE_index_data
    \/ DP_connect \/ DP_parse_csv_file \/ DP_create_index \/ DP_index_csv_data
    \/ ES_connect \/ ES_create_estados_index \/ ES_parse_estados_data
    \/ ES_index_estados_data
    \/ ST_read_csv \/ ST_connect \/ ST_create_index \/ ST_index_data

Spec == Init /\ [][Next]_vars

(***************************************************************************)
(* Properties.                                                             *)
(***************************************************************************)
ScriptEntryPoints == {"index_elastic", "dadospop", "index_estados"}
Issued(ops) == {i \in DOMAIN calls : calls[i].op \in ops}

\* C1: in index_elastic, dadospop and index_estados, when the liveness probe
\* answers false or raises, the run has halted with exit status 1 and has
\* issued no exists, delete, create or bulk call.
C1_PingFailureHalts ==
    (/\ script \in ScriptEntryPoints
     /\ \E i \in Issued({"ping"}) : calls[i].ret \in {"false", "raise"})
    => /\ pc = "done"
       /\ halt = "exit(1)"
       /\ ExitStatus = 1
       /\ Issued({"exists", "delete", "create", "bulk"}) = {}

\* C1 witness: a second run whose probe fails while the sink holds indices.
C1_Witness ==
    /\ script \in ScriptEntryPoints
    /\ runs = 2
    /\ indices # {}
    /\ pc = "done"
    /\ calls = <<Call("ping", "", "false")>>

\* The mappings the run's create-index call asks for.
RequestedMappings ==
    CASE script = "index_elastic" -> StaticMappings
      [] script = "index_estados" -> EstadosMappings
      [] script \in {"dadospop", "indexador_streamlit"} -> DynamicMappings(data[1])

\* C2: once a run has called create-index, whether or not an index of that
\* name existed, the call has not failed with an already-exists error and
\* the sink holds exactly one index of that name, with the mappings of this
\* call.
C2_CreateIndexIdempotent ==
    \A i \in Issued({"create"}) :
        /\ calls[i].ret = "ok"
        /\ Cardinality({x \in indices : x.name = calls[i].index}) = 1
        /\ \A x \in indices :
              x.name = calls[i].index => x.mappings = RequestedMappings

\* C2 witness: index_elastic recreates "obitos" over an index of that name
\* that another run created.
C2_Witness ==
    /\ script = "index_elastic"
    /\ runs = 2
    /\ \E i \in Issued({"delete"}) : calls[i].index = "obitos"
    /\ \E i \in Issued({"create"}) : calls[i].index = "obitos" /\ calls[i].ret = "ok"
    /\ \E x \in indices : x.name = "obitos" /\ x.mappings = StaticMappings

\* C3: a delete call comes directly after an exists call on the same name
\* that answered true; an exists call that answered false is followed by
\* create, one that answered true by delete and then create.
C3_DeleteOnlyAfterExists ==
    /\ \A i \in Issued({"delete"}) :
          /\ i > 1
          /\ calls[i - 1] = Call("exists", calls[i].index, "true")
    /\ \A i \in Issued({"exists"}) :
          IF calls[i].ret = "true"
          THEN /\ i + 2 \in DOMAIN calls
               /\ calls[i + 1].op = "delete" /\ calls[i + 1].index = calls[i].index
               /\ calls[i + 2].op = "create" /\ calls[i + 2].index = calls[i].index
          ELSE /\ i + 1 \in DOMAIN calls
               /\ calls[i + 1].op = "create" /\ calls[i + 1].index = calls[i].index

\* C3 witness: the Streamlit page recreates an index that existed.
C3_Witness ==
    /\ script = "indexador_streamlit"
    /\ \E i \in DOMAIN calls :
          /\ calls[i] = Call("exists", index_name, "true")
          /\ i + 2 \in DOMAIN calls
          /\ calls[i + 1] = Call("delete", index_name, "ok")
          /\ calls[i + 2] = Call("create", index_name, "ok")

BulkAnswered == \E i \in Issued({"bulk"}) : calls[i].ret = "ok"

C5_BulkOutcomeCounts ==
    /\ BulkAnswered =>
          /\ response.success + Len(response.errors) = Len(data)
          /\ \A x \in indices : x.name = index_name => x.docs = response.success
          /\ Len(response.errors) = Cardinality(outcome.rejected)
    /\ report.kind = "success" =>
          /\ BulkAnswered
          /\ response.errors = << >>
          /\ report.n = response.success

\* C5 witness: a bulk call in which the sink accepts a part of the batch
\* and rejects the rest.
C5_Witness ==
    /\ BulkAnswered
    /\ response.success > 0
    /\ response.errors # << >>

\* The artifact name the convention gives an index.
FailedDocsName(name) == "failed_docs_" \o name \o ".json"

\* C6: every failure artifact is named failed_docs_<index>.json after the
\* index whose failures it holds.
C6_ArtifactNamedAfterIndex ==
    \A f \in DOMAIN files :
        \A k \in DOMAIN files[f] : f = FailedDocsName(files[f][k].index)

\* C7: a script run whose bulk call raised (a timeout) ends with a non-zero
\* exit status.
C7_BulkTimeoutIsFatal ==
    (/\ script \in ScriptEntryPoints
     /\ pc = "done"
     /\ \E i \in Issued({"bulk"}) : calls[i].ret = "raise")
    => ExitStatus # 0

\* C8: when the sink rejects documents of the batch, the loader has
\* returned normally, the process has not halted with an error, the failure
\* list holds every rejected document with its reason, and the failed count
\* reported is their number.
C8_RejectionsAreReported ==
    (Issued({"bulk"}) # {} /\ outcome.rejected # {})
    => /\ pc = "done"
       /\ halt = "return"
       /\ ExitStatus = 0
       /\ ~response.raised
       /\ Len(response.errors) = Cardinality(outcome.rejected)
       /\ \A p \in outcome.rejected :
             \E k \in DOMAIN response.errors :
                /\ response.errors[k].data = data[p]
                /\ response.errors[k].reason # ""
       /\ report = Report("failed", Cardinality(outcome.rejected))

\* C8 witness: index_elastic's batch is rejected whole.
C8_Witness ==
    /\ script = "index_elastic"
    /\ Issued({"bulk"}) # {}
    /\ data # << >>
    /\ outcome.rejected = DOMAIN data

\* C9: no field of a document passed to the bulk call is a missing-value
\* sentinel.
C9_NoSentinelSubmitted ==
    Issued({"bulk"}) # {}
    => \A k \in DOMAIN data :
          \A f \in DOMAIN data[k] : data[k][f] \notin Sentinels

Iso20200101 == Str(<<"2", "0", "2", "0", "-", "0", "1", "-", "0", "1", "T",
                     "0", "0", ":", "0", "0", ":", "0", "0">>)

\* C10: after process_csv every date field is the ISO-8601 string of the
\* date when the raw cell parses as day-month-year ("01012020" gives
\* "2020-01-01T00:00:00"), and null when it does not ("99999999", a missing
\* cell).
C10_DateFieldsIsoOrNull ==
    (/\ script = "index_elastic"
     /\ pc \in {"index_data", "done"}
     /\ csv # NoInput
     /\ date_columns \subseteq csv.columns)
    => \A k \in DOMAIN data :
          \A c \in date_columns :
             /\ csv.rows[k][c] = D01012020 => data[k][c] = Iso20200101
             /\ csv.rows[k][c] \in {D99999999, NaN} => data[k][c] = None

IsNumeric(x) == x.t = "float"
GeoPrefixes == {"res", "ocor"}

\* C11: for the res and ocor pairs (both <prefix>_coordenadas fields are
\* geo_point in the mappings), a document of process_csv holds the geo-point
\* {lat, lon} under <prefix>_coordenadas when both components are non-null
\* and numeric, and null there (or no such field) when either is null or
\* not a number.
C11_GeoPointIffBothNumeric ==
    (/\ script = "index_elastic"
     /\ pc \in {"index_data", "done"}
     /\ csv # NoInput
     /\ date_columns \subseteq csv.columns)
    => \A k \in DOMAIN data :
          \A p \in GeoPrefixes :
             LET latcol == p \o "_LATITUDE"
                 loncol == p \o "_LONGITUDE"
                 geo == p \o "_coordenadas"
             IN  ({latcol, loncol} \subseteq csv.columns /\ geo \in DOMAIN StaticMappings)
                 => LET lat == csv.rows[k][latcol]
                        lon == csv.rows[k][loncol]
                    IN  IF IsNumeric(lat) /\ IsNumeric(lon)
                        THEN /\ geo \in DOMAIN data[k]
                             /\ data[k][geo] = GeoDict(lat, lon)
                        ELSE geo \in DOMAIN data[k] => data[k][geo] = None

\* C12: every field name of every document passed to the bulk call has an
\* entry in the mappings the run created the index with (static and dynamic
\* variants).
C12_EveryFieldMapped ==
    Issued({"bulk"}) # {}
    => \A x \in indices :
          x.name = index_name
          => \A k \in DOMAIN data :
                \A f \in DOMAIN data[k] : f \in DOMAIN x.mappings

\* A script's loader runs and its bulk call returns a non-empty failure
\* list.
LoaderReturnsFailures ==
    /\ script \in ScriptEntryPoints
    /\ pc \in {"index_data", "index_csv_data", "index_estados_data"}
    /\ pc' = "done"
    /\ ~response'.raised
    /\ response'.errors # << >>

\* C13: a script's loader writes the failure artifact exactly when its bulk
\* call returns a non-empty failure list: then one file is written and holds
\* the whole list (one descriptor per rejected document); when the list is
\* empty or the bulk call raises, and in every other step, no file is
\* created or modified.
C13_ArtifactWrittenIffFailures ==
    [][/\ LoaderReturnsFailures
          => /\ \E f \in DOMAIN files' : files' = WriteFile(files, f, response'.errors)
             /\ Len(response'.errors) = Cardinality(outcome'.rejected)
       /\ ~LoaderReturnsFailures => files' = files]_vars

\* C13 witness: index_estados runs again with nothing rejected (or with the
\* bulk call raising) while the artifact of an earlier run is in place.
C13_Witness ==
    /\ script = "index_estados"
    /\ runs = 2
    /\ pc = "done"
    /\ Issued({"bulk"}) # {}
    /\ response.errors = << >>
    /\ "failed_docs_estados.json" \in DOMAIN files
    /\ files["failed_docs_estados.json"] # << >>

====
